---------------------------- MODULE Spec2Model ----------------------------
(***************************************************************************)
(* Model of the Arakawa tennis-court reservation bot:                      *)
(*   arakawa_selenium_check.py  (eligibility filter, booking attempt,      *)
(*                               page loop)                                *)
(*   arakawa_calendar.py        (calendar conflict check)                  *)
(*                                                                         *)
(* Text is modelled as a sequence of one-character strings, so that the    *)
(* regular-expression matches, the split on ":" and the int() conversions  *)
(* of the code are computed and not assumed.  A character outside ASCII    *)
(* is written as one symbol (its reading), e.g. <<"un","dou","jou">>.      *)
(* A date is its proleptic Gregorian ordinal (date.toordinal()); a         *)
(* datetime is a record [day, sec] with an optional UTC offset.            *)
(***************************************************************************)
EXTENDS Integers, Sequences, FiniteSets, TLC

VARIABLES
    \* ---- module-level configuration of arakawa_selenium_check.py
    INCLUDE_WEEKDAYS_FOR_DEBUG,        \* line 35
    INCLUDE_ALL_TIME_SLOTS_FOR_DEBUG,  \* line 38
    MAX_NEXT_CLICKS,                   \* line 32 (None or a number)
    today,                             \* date.today() of the run
    \* ---- one call of _is_valid_slot
    v_pc, v_start, v_end, v_ret,
    \* ---- one call of get_reservation_candidates
    f_pc, f_slots, f_ret,
    \* ---- one call of has_calendar_conflict
    c_pc, c_slot, c_events, c_ret,
    \* ---- one call of fetch_calendar_busy_ranges and of
    \*      fetch_events_in_range on the same items
    e_pc, e_items, e_busy, e_range,
    \* ---- one results page: scrape_one_day's normalisation, then
    \*      get_reservation_candidates
    p_pc, p_date_text, p_cells, p_slots, p_cands, p_cands2, p_again,
    \* ---- the run: scrape_all_days and try_book_first_candidate
    pc, grid, page, events_cache, all_results, booked_slots, next_clicks,
    day_results, calendar_ok, first_slot, marker, actions, failures, ret,
    scrapes,
    attempts,   \* calls of try_book_first_candidate since the last scrape
    fetches,    \* calendar fetches (events().list().execute()) that returned
    advances    \* activations of the next control since the run began

vars == <<INCLUDE_WEEKDAYS_FOR_DEBUG, INCLUDE_ALL_TIME_SLOTS_FOR_DEBUG,
          MAX_NEXT_CLICKS, today,
          v_pc, v_start, v_end, v_ret, f_pc, f_slots, f_ret,
          c_pc, c_slot, c_events, c_ret,
          e_pc, e_items, e_busy, e_range,
          p_pc, p_date_text, p_cells, p_slots, p_cands, p_cands2, p_again,
          pc, grid, page, events_cache, all_results, booked_slots,
          next_clicks, day_results, calendar_ok, first_slot, marker,
          actions, failures, ret, scrapes, attempts, fetches,
          advances>>

cfgVars == <<INCLUDE_WEEKDAYS_FOR_DEBUG, INCLUDE_ALL_TIME_SLOTS_FOR_DEBUG,
             MAX_NEXT_CLICKS, today>>
validVars == <<v_pc, v_start, v_end, v_ret>>
filterVars == <<f_pc, f_slots, f_ret>>
conflictVars == <<c_pc, c_slot, c_events, c_ret>>
entryVars == <<e_pc, e_items, e_busy, e_range>>
pageVars == <<p_pc, p_date_text, p_cells, p_slots, p_cands, p_cands2, p_again>>
runVars == <<pc, grid, page, events_cache, all_results, booked_slots,
             next_clicks, day_results, calendar_ok, first_slot, marker,
             actions, failures, ret, scrapes, attempts, fetches,
          advances>>

None == "None"

----------------------------------------------------------------------------
(* Text                                                                    *)

Digits == <<"0", "1", "2", "3", "4", "5", "6", "7", "8", "9">>

IsDigit(c) == \E i \in 1..10 : Digits[i] = c

DigitVal(c) == (CHOOSE i \in 1..10 : Digits[i] = c) - 1

IsSpace(c) == c \in {" ", "\n", "\t"}

RECURSIVE LStrip(_)
LStrip(s) ==
    IF s # <<>> /\ IsSpace(Head(s)) THEN LStrip(Tail(s)) ELSE s

RECURSIVE RStrip(_)
RStrip(s) ==
    IF s # <<>> /\ IsSpace(s[Len(s)]) THEN RStrip(SubSeq(s, 1, Len(s) - 1))
    ELSE s

\* str.strip()
Strip(s) == RStrip(LStrip(s))

\* str.split(sep) for a one-character separator: the list of the parts
RECURSIVE SplitOn(_, _, _)
SplitOn(s, sep, cur) ==
    IF s = <<>> THEN <<cur>>
    ELSE IF Head(s) = sep THEN <<cur>> \o SplitOn(Tail(s), sep, <<>>)
    ELSE SplitOn(Tail(s), sep, Append(cur, Head(s)))

RECURSIVE DigitsValue(_, _)
DigitsValue(s, acc) ==
    IF s = <<>> THEN acc
    ELSE DigitsValue(Tail(s), acc * 10 + DigitVal(Head(s)))

\* int(s) raises ValueError unless s, surrounding whitespace ignored, is a
\* non-empty run of digits.  Signs and underscores are outside the alphabet
\* of the model.
IsPyInt(s) ==
    LET t == Strip(s)
    IN  t # <<>> /\ \A i \in 1..Len(t) : IsDigit(t[i])

\* int(s) where it does not raise
PyInt(s) == DigitsValue(Strip(s), 0)

\* re.match(r"\d{1,2}:\d{2}", s): a match at the start of s
MatchHHMM(s) ==
    \E k \in {1, 2} :
        /\ Len(s) >= k + 3
        /\ \A i \in 1..k : IsDigit(s[i])
        /\ s[k + 1] = ":"
        /\ IsDigit(s[k + 2])
        /\ IsDigit(s[k + 3])

\* needle in hay (substring containment)
Contains(hay, needle) ==
    \E i \in 0..(Len(hay) - Len(needle)) :
        SubSeq(hay, i + 1, i + Len(needle)) = needle

\* the text "HH:MM"
HHMM(h, m) ==
    <<Digits[(h \div 10) + 1], Digits[(h % 10) + 1], ":",
      Digits[(m \div 10) + 1], Digits[(m % 10) + 1]>>

----------------------------------------------------------------------------
(* Dates                                                                   *)

IsLeap(y) == (y % 4 = 0) /\ ((y % 100 # 0) \/ (y % 400 = 0))

DaysInMonth(y, m) ==
    IF m = 2 THEN (IF IsLeap(y) THEN 29 ELSE 28)
    ELSE IF m \in {4, 6, 9, 11} THEN 30 ELSE 31

RECURSIVE DaysBeforeMonth(_, _)
DaysBeforeMonth(y, m) ==
    IF m = 1 THEN 0 ELSE DaysBeforeMonth(y, m - 1) + DaysInMonth(y, m - 1)

\* date(y, m, d).toordinal()
Date(y, m, d) ==
    LET p == y - 1
    IN  p * 365 + (p \div 4) - (p \div 100) + (p \div 400)
        + DaysBeforeMonth(y, m) + d

\* date.weekday(): Monday is 0
Weekday(d) == (d + 6) % 7

\* jpholiday.is_holiday(d) on the days of the model: 2026-03-20 is
\* Vernal Equinox Day
JpHolidays == {Date(2026, 3, 20)}

----------------------------------------------------------------------------
(* Eligibility: arakawa_selenium_check.py                                  *)

PARK_KEYWORDS ==
    << <<"higashi", "o", "gu", "un", "dou", "jou">>,
       <<"ku", "min", "un", "dou", "jou">>,
       <<"shi", "zen", "kou", "en", "tei", "kyuu", "jou">>,
       <<"miya", "mae", "kou", "en", "tei", "kyuu", "jou">> >>

VALID_START_TIMES ==
    <<HHMM(9, 0), HHMM(10, 0), HHMM(11, 0), HHMM(13, 0), HHMM(15, 0),
      HHMM(17, 0), HHMM(19, 0)>>

MIN_DAYS_AHEAD == 3

\* the dict of _is_valid_slot, as its list of (key, value) pairs
expected_ends ==
    << <<HHMM(9, 0), HHMM(11, 0)>>, <<HHMM(11, 0), HHMM(13, 0)>>,
       <<HHMM(13, 0), HHMM(15, 0)>>, <<HHMM(15, 0), HHMM(17, 0)>>,
       <<HHMM(17, 0), HHMM(19, 0)>>, <<HHMM(19, 0), HHMM(21, 0)>> >>

\* key in d
DictHas(d, key) == \E i \in 1..Len(d) : d[i][1] = key

\* d[key] for a key of d
DictGet(d, key) == d[CHOOSE i \in 1..Len(d) : d[i][1] = key][2]

InTuple(x, t) == \E i \in 1..Len(t) : t[i] = x

_is_weekend_or_holiday(d) ==
    IF Weekday(d) >= 5 THEN TRUE ELSE d \in JpHolidays

Mut_is_valid_slot_NoEndCheck(start_time, end_time) ==
    IF start_time = <<>> \/ end_time = <<>> THEN FALSE
    ELSE IF INCLUDE_ALL_TIME_SLOTS_FOR_DEBUG
         THEN MatchHHMM(start_time) /\ MatchHHMM(end_time)
    ELSE InTuple(start_time, VALID_START_TIMES)

_is_valid_slot(start_time, end_time) ==
    IF start_time = <<>> \/ end_time = <<>> THEN FALSE
    ELSE IF INCLUDE_ALL_TIME_SLOTS_FOR_DEBUG
         THEN MatchHHMM(start_time) /\ MatchHHMM(end_time)
    ELSE IF ~InTuple(start_time, VALID_START_TIMES) THEN FALSE
    \* expected_ends.get(start_time) == end_time: None equals no string
    ELSE /\ DictHas(expected_ends, start_time)
         /\ DictGet(expected_ends, start_time) = end_time

_is_court_in_scope(court_text) ==
    \E i \in 1..Len(PARK_KEYWORDS) : Contains(court_text, PARK_KEYWORDS[i])

Mut_is_within_min_days_Strict(slot_date, min_days) ==
    slot_date < today + min_days

_is_within_min_days(slot_date, min_days) ==
    LET threshold == today + min_days
    IN  slot_date <= threshold

Mut_Keeps_NoTimeRule(s) ==
    /\ ~(~INCLUDE_WEEKDAYS_FOR_DEBUG /\ ~_is_weekend_or_holiday(s.date_obj))
    /\ ~_is_within_min_days(s.date_obj, MIN_DAYS_AHEAD)
    /\ _is_court_in_scope(s.court)

\* the loop body's decision for one slot: TRUE when it is appended
Keeps(s) ==
    /\ ~(~INCLUDE_WEEKDAYS_FOR_DEBUG /\ ~_is_weekend_or_holiday(s.date_obj))
    /\ ~_is_within_min_days(s.date_obj, MIN_DAYS_AHEAD)
    /\ _is_valid_slot(s.start_time, s.end_time)
    /\ _is_court_in_scope(s.court)

\* the filter written as a removal from the list it iterates over: the slot
\* after a removed one is never looked at
RECURSIVE Mut_filter_slots_RemovesWhileIterating(_)
Mut_filter_slots_RemovesWhileIterating(slots) ==
    IF slots = <<>> THEN <<>>
    ELSE IF Keeps(Head(slots))
         THEN <<Head(slots)>>
              \o Mut_filter_slots_RemovesWhileIterating(Tail(slots))
         ELSE IF Tail(slots) = <<>> THEN <<>>
         ELSE <<Head(Tail(slots))>>
              \o Mut_filter_slots_RemovesWhileIterating(Tail(Tail(slots)))

RECURSIVE _filter_slots_by_requirements(_)
_filter_slots_by_requirements(slots) ==
    IF slots = <<>> THEN <<>>
    ELSE IF Keeps(Head(slots))
         THEN <<Head(slots)>> \o _filter_slots_by_requirements(Tail(slots))
         ELSE _filter_slots_by_requirements(Tail(slots))

get_reservation_candidates(slots) == _filter_slots_by_requirements(slots)

----------------------------------------------------------------------------
(* Calendar conflict: arakawa_calendar.py                                  *)

HOURS_BUFFER == 2

\* the default of has_calendar_conflict's tz_offset_hours
TZ_OFFSET_HOURS == 9

Max(a, b) == IF a >= b THEN a ELSE b

Min(a, b) == IF a <= b THEN a ELSE b

\* datetime.astimezone(timezone.utc) of an aware datetime, and
\* datetime.replace(tzinfo=timezone.utc) of a naive one (tzinfo is None)
ToUTC(dt) ==
    IF ~dt.aware THEN [day |-> dt.day, sec |-> dt.sec]
    ELSE LET t == dt.sec - dt.off * 3600
         IN  IF t < 0 THEN [day |-> dt.day - 1, sec |-> t + 86400]
             ELSE IF t >= 86400 THEN [day |-> dt.day + 1, sec |-> t - 86400]
             ELSE [day |-> dt.day, sec |-> t]

\* a < b on datetimes
DtLess(a, b) == a.day < b.day \/ (a.day = b.day /\ a.sec < b.sec)

_parse_time_to_minutes(t) ==
    LET parts == SplitOn(Strip(t), ":", <<>>)
    IN  IF Len(parts) # 2 THEN 0
        ELSE IF ~IsPyInt(parts[1]) \/ ~IsPyInt(parts[2]) THEN 0
        ELSE PyInt(parts[1]) * 60 + PyInt(parts[2])

\* the end of the window without the limit of 23:59
Mut_check_end_dt_NoClamp(d, end_mins) ==
    LET check_end_mins == end_mins + HOURS_BUFFER * 60
    IN  [day |-> d, aware |-> TRUE, off |-> TZ_OFFSET_HOURS,
         sec |-> (check_end_mins \div 60) * 3600 + (check_end_mins % 60) * 60 + 59]

\* check_end_dt with tzinfo=jst
check_end_dt(d, end_mins) ==
    LET check_end_mins == Min(24 * 60 - 1, end_mins + HOURS_BUFFER * 60)
    IN  [day |-> d, aware |-> TRUE, off |-> TZ_OFFSET_HOURS,
         sec |-> (check_end_mins \div 60) * 3600 + (check_end_mins % 60) * 60 + 59]

\* check_start_dt with tzinfo=jst
check_start_dt(d, start_mins) ==
    LET check_start_mins == Max(0, start_mins - HOURS_BUFFER * 60)
    IN  [day |-> d, aware |-> TRUE, off |-> TZ_OFFSET_HOURS,
         sec |-> (check_start_mins \div 60) * 3600 + (check_start_mins % 60) * 60]

overlaps(ev, check_start_utc, check_end_utc) ==
    /\ DtLess(ToUTC(ev[1]), check_end_utc)
    /\ DtLess(check_start_utc, ToUTC(ev[2]))

\* has_calendar_conflict raises ValueError: datetime() refuses an hour
\* above 23 (the minute and the end hour are always in range)
has_calendar_conflict_raises(slot) ==
    /\ slot.start_time # <<>> /\ slot.end_time # <<>>
    /\ LET start_mins == _parse_time_to_minutes(slot.start_time)
           end_mins == _parse_time_to_minutes(slot.end_time)
       IN  /\ ~(start_mins = 0 /\ end_mins = 0)
           /\ Max(0, start_mins - HOURS_BUFFER * 60) \div 60 > 23

\* a slot with an unset time taken as busy
Mut_has_calendar_conflict_UnknownBusy(slot, events) ==
    IF slot.start_time = <<>> \/ slot.end_time = <<>> THEN TRUE
    ELSE LET start_mins == _parse_time_to_minutes(slot.start_time)
             end_mins == _parse_time_to_minutes(slot.end_time)
         IN  IF start_mins = 0 /\ end_mins = 0 THEN FALSE
             ELSE LET check_start_utc ==
                          ToUTC(check_start_dt(slot.date_obj, start_mins))
                      check_end_utc ==
                          ToUTC(check_end_dt(slot.date_obj, end_mins))
                  IN  \E i \in 1..Len(events) :
                          overlaps(events[i], check_start_utc, check_end_utc)

\* the value has_calendar_conflict returns, where it does not raise
has_calendar_conflict(slot, events) ==
    IF slot.start_time = <<>> \/ slot.end_time = <<>> THEN FALSE
    ELSE LET start_mins == _parse_time_to_minutes(slot.start_time)
             end_mins == _parse_time_to_minutes(slot.end_time)
         IN  IF start_mins = 0 /\ end_mins = 0 THEN FALSE
             ELSE LET check_start_utc ==
                          ToUTC(check_start_dt(slot.date_obj, start_mins))
                      check_end_utc ==
                          ToUTC(check_end_dt(slot.date_obj, end_mins))
                  IN  \E i \in 1..Len(events) :
                          overlaps(events[i], check_start_utc, check_end_utc)

RECURSIVE KeepFree(_, _)
KeepFree(candidates, events) ==
    IF candidates = <<>> THEN <<>>
    ELSE IF ~has_calendar_conflict(Head(candidates), events)
         THEN <<Head(candidates)>> \o KeepFree(Tail(candidates), events)
         ELSE KeepFree(Tail(candidates), events)

\* filter_by_calendar(candidates, events_cache=cache) with a cache
filter_by_calendar(candidates, cache) ==
    IF candidates = <<>> THEN <<>> ELSE KeepFree(candidates, cache)

----------------------------------------------------------------------------
(* Inputs of the function-level specifications                             *)

MaxSlots == 2

MaxEvents == 2

\* sequences over S of length at most n
RECURSIVE SeqsUpTo(_, _)
SeqsUpTo(S, n) ==
    IF n = 0 THEN {<<>>}
    ELSE LET shorter == SeqsUpTo(S, n - 1)
         IN  shorter \cup {Append(q, x) : q \in shorter, x \in S}

TimeTexts ==
    {<<>>, <<"9", ":", "0", "0">>, <<"x">>}
    \cup {HHMM(h, 0) : h \in {8, 9, 10, 11, 12, 13, 15, 17, 19, 21}}
    \cup {HHMM(10, 30)}

CourtA == <<"higashi", "o", "gu", "un", "dou", "jou", " ", "A">>

CourtOther == <<"un", "dou", "jou">>

Slot(d, st, en, court, btn) ==
    [date_obj |-> d, start_time |-> st, end_time |-> en, court |-> court,
     button_id |-> btn]

FilterSlots ==
    {Slot(d, HHMM(9, 0), HHMM(11, 0), CourtA, "button0_8") :
        d \in {Date(2026, 3, 4), Date(2026, 3, 5), Date(2026, 3, 6),
               Date(2026, 3, 7), Date(2026, 3, 20)}}
    \cup {Slot(Date(2026, 3, 5), HHMM(9, 0), HHMM(10, 30), CourtA, "button0_9"),
          Slot(Date(2026, 3, 5), <<>>, <<>>, CourtA, "button0_10"),
          Slot(Date(2026, 3, 7), HHMM(13, 0), HHMM(15, 0), CourtOther, ""),
          Slot(Date(2026, 3, 7), HHMM(8, 0), HHMM(10, 0), CourtA, "button1_2"),
          Slot(Date(2026, 3, 7), HHMM(10, 0), HHMM(12, 0), CourtA, "button1_3")}

Jst(d, h, m, sec) ==
    [day |-> d, sec |-> h * 3600 + m * 60 + sec, aware |-> TRUE,
     off |-> TZ_OFFSET_HOURS]

Utc(d, h, m, sec) ==
    [day |-> d, sec |-> h * 3600 + m * 60 + sec, aware |-> TRUE, off |-> 0]

Naive(d, h, m, sec) ==
    [day |-> d, sec |-> h * 3600 + m * 60 + sec, aware |-> FALSE, off |-> 0]

DayD == Date(2026, 3, 5)

Instants ==
    <<Jst(DayD, 10, 59, 59), Jst(DayD, 11, 0, 0), Jst(DayD, 16, 0, 0),
      Jst(DayD, 16, 30, 0), Jst(DayD, 17, 0, 0), Jst(DayD, 17, 0, 59),
      Jst(DayD, 18, 0, 0)>>

BusyIntervals ==
    {<<Instants[p[1]], Instants[p[2]]>> :
        p \in {q \in (1..Len(Instants)) \X (1..Len(Instants)) : q[1] < q[2]}}
    \cup {<<Utc(DayD, 8, 0, 0), Utc(DayD, 9, 0, 0)>>,
          <<Naive(DayD, 7, 0, 0), Naive(DayD, 7, 30, 0)>>,
          <<Jst(DayD - 1, 0, 0, 0), Jst(DayD - 1, 23, 59, 59)>>,
          <<Jst(DayD + 1, 0, 0, 0), Jst(DayD + 1, 23, 59, 59)>>}

ConflictSlots ==
    {Slot(DayD, HHMM(13, 0), HHMM(15, 0), CourtA, "button0_8"),
     Slot(DayD, HHMM(0, 30), HHMM(1, 30), CourtA, "button0_1"),
     Slot(DayD, HHMM(22, 0), HHMM(23, 30), CourtA, "button0_20"),
     Slot(DayD, <<>>, <<>>, CourtA, "button0_3"),
     Slot(DayD, HHMM(13, 0), <<>>, CourtA, "button0_4"),
     Slot(DayD, <<>>, HHMM(15, 0), CourtA, "button0_5")}

----------------------------------------------------------------------------
(* Normalisation: scrape_one_day of arakawa_selenium_check.py              *)
(*                                                                         *)
(* An optional element or match is a sequence of length 0 (absent) or 1.   *)

\* str.split() without argument: the words between runs of whitespace
RECURSIVE SplitWs(_, _)
SplitWs(s, cur) ==
    LET word == IF cur = <<>> THEN <<>> ELSE <<cur>>
    IN  IF s = <<>> THEN word
        ELSE IF IsSpace(Head(s)) THEN word \o SplitWs(Tail(s), <<>>)
        ELSE SplitWs(Tail(s), Append(cur, Head(s)))

\* " ".join(words)
RECURSIVE JoinSp(_)
JoinSp(words) ==
    IF words = <<>> THEN <<>>
    ELSE IF Len(words) = 1 THEN words[1]
    ELSE words[1] \o <<" ">> \o JoinSp(Tail(words))

\* " ".join(text.split())
NormalizeSpace(s) == JoinSp(SplitWs(s, <<>>))

\* s.replace(c, "") for every character c of chars
RemoveChars(s, chars) == SelectSeq(s, LAMBDA c : c \notin chars)

\* the digits of s from position i on: the length of the longest run
RECURSIVE DigitRun(_, _)
DigitRun(s, i) ==
    IF i <= Len(s) /\ IsDigit(s[i]) THEN 1 + DigitRun(s, i + 1) ELSE 0

\* the texts of the labels the code writes
DATE_UNKNOWN == <<"hi", "zuke", "fu", "mei">>

TIME_UNKNOWN == <<"ji", "kan", "fu", "mei">>

COURT_UNKNOWN == <<"ko", "-", "to", "fu", "mei">>

\* the pattern reiwa(\d+)nen(\d+)gatsu(\d+)nichi matches s at position i;
\* each \d+ takes the whole run of digits, a literal follows it
ReiwaAt(s, i) ==
    LET a == DigitRun(s, i + 2)
        b == DigitRun(s, i + 3 + a)
        c == DigitRun(s, i + 4 + a + b)
    IN  /\ i + 1 <= Len(s) /\ s[i] = "rei" /\ s[i + 1] = "wa"
        /\ a >= 1 /\ i + 2 + a <= Len(s) /\ s[i + 2 + a] = "nen"
        /\ b >= 1 /\ i + 3 + a + b <= Len(s) /\ s[i + 3 + a + b] = "gatsu"
        /\ c >= 1 /\ i + 4 + a + b + c <= Len(s)
        /\ s[i + 4 + a + b + c] = "nichi"

\* date(year, month, day) raises ValueError
DateRaises(y, m, d) ==
    ~(y \in 1..9999 /\ m \in 1..12 /\ d \in 1..DaysInMonth(y, m))

\* the digits of s without its leading zeros
RECURSIVE SigDigits(_)
SigDigits(s) ==
    IF s # <<>> /\ Head(s) = "0" THEN SigDigits(Tail(s)) ELSE s

\* the number written by the digits s is greater than the one written by lim
DigitsExceed(s, lim) ==
    LET d == SigDigits(s)
    IN  \/ Len(d) > Len(lim)
        \/ /\ Len(d) = Len(lim)
           /\ \E i \in 1..Len(d) :
                  /\ DigitVal(d[i]) > DigitVal(lim[i])
                  /\ \A j \in 1..(i - 1) : d[j] = lim[j]

\* the largest C int, 2^31 - 1, and the largest Reiwa year with
\* 2018 + ryear no greater than it, as digits
C_INT_MAX == <<"2", "1", "4", "7", "4", "8", "3", "6", "4", "7">>

RYEAR_MAX == <<"2", "1", "4", "7", "4", "8", "1", "6", "2", "9">>

\* date(year, month, day) raises OverflowError: an argument does not fit a
\* C int
DateOverflows(ryear, month, day) ==
    \/ DigitsExceed(ryear, RYEAR_MAX)
    \/ DigitsExceed(month, C_INT_MAX)
    \/ DigitsExceed(day, C_INT_MAX)

\* _parse_reiwa_date raises: the OverflowError of date() is not a
\* ValueError and leaves the function
_parse_reiwa_date_raises(date_text) ==
    LET M == {i \in 1..Len(date_text) : ReiwaAt(date_text, i)}
    IN  /\ M # {}
        /\ LET i == CHOOSE x \in M : \A y \in M : x <= y
               a == DigitRun(date_text, i + 2)
               b == DigitRun(date_text, i + 3 + a)
               c == DigitRun(date_text, i + 4 + a + b)
           IN  DateOverflows(SubSeq(date_text, i + 2, i + 1 + a),
                             SubSeq(date_text, i + 3 + a, i + 2 + a + b),
                             SubSeq(date_text, i + 4 + a + b,
                                    i + 3 + a + b + c))

\* _parse_reiwa_date where it does not raise: the date of the leftmost
\* match, or nothing
_parse_reiwa_date(date_text) ==
    LET M == {i \in 1..Len(date_text) : ReiwaAt(date_text, i)}
    IN  IF M = {} \/ _parse_reiwa_date_raises(date_text) THEN <<>>
        ELSE LET i == CHOOSE x \in M : \A y \in M : x <= y
                 a == DigitRun(date_text, i + 2)
                 b == DigitRun(date_text, i + 3 + a)
                 c == DigitRun(date_text, i + 4 + a + b)
                 ryear == DigitsValue(SubSeq(date_text, i + 2, i + 1 + a), 0)
                 month == DigitsValue(SubSeq(date_text, i + 3 + a,
                                             i + 2 + a + b), 0)
                 day == DigitsValue(SubSeq(date_text, i + 4 + a + b,
                                           i + 3 + a + b + c), 0)
                 year == 2018 + ryear
             IN  IF DateRaises(year, month, day) THEN <<>>
                 ELSE <<Date(year, month, day)>>

\* the characters of the class between the two times of a range
RANGE_SEPARATORS == {"nami", "-", "namidash", "minus"}

\* the separators of s from position i on: the length of the longest run
RECURSIVE SepRun(_, _)
SepRun(s, i) ==
    IF i <= Len(s) /\ s[i] \in RANGE_SEPARATORS THEN 1 + SepRun(s, i + 1)
    ELSE 0

\* \d{1,2}:\d{2} at position i of s, with k digits before the colon
ClockAt(s, i, k) ==
    /\ i >= 1 /\ i + k + 2 <= Len(s)
    /\ \A j \in i..(i + k - 1) : IsDigit(s[j])
    /\ s[i + k] = ":"
    /\ IsDigit(s[i + k + 1]) /\ IsDigit(s[i + k + 2])

\* the range pattern matches s at position i with k1 and k2 digits in the
\* hours; the separators are the whole run, a digit follows them
RangeAt(s, i, k1, k2) ==
    LET n == SepRun(s, i + k1 + 3)
    IN  /\ ClockAt(s, i, k1)
        /\ n >= 1
        /\ ClockAt(s, i + k1 + 3 + n, k2)

\* _parse_time_range: <<start, end>> of the leftmost match, or nothing
_parse_time_range(time_text) ==
    LET s == RemoveChars(time_text, {" ", "\n"})
        M == {m \in (1..Len(s)) \X {1, 2} \X {1, 2} :
                 RangeAt(s, m[1], m[2], m[3])}
    IN  IF M = {} THEN <<>>
        ELSE LET m == CHOOSE x \in M : \A y \in M : x[1] <= y[1]
                 i == m[1]
                 j == i + m[2] + 3 + SepRun(s, i + m[2] + 3)
             IN  <<SubSeq(s, i, i + m[2] + 2), SubSeq(s, j, j + m[3] + 2)>>

\* re.match(r"td\d+_(\d+)$", id): the column index, or nothing
TdColumn(id) ==
    LET a == DigitRun(id, 3)
        b == DigitRun(id, 4 + a)
    IN  IF /\ Len(id) >= 5 /\ id[1] = "t" /\ id[2] = "d"
           /\ a >= 1 /\ 3 + a <= Len(id) /\ id[3 + a] = "_"
           /\ b >= 1 /\ 3 + a + b = Len(id)
        THEN <<SubSeq(id, 4 + a, Len(id))>>
        ELSE <<>>

\* _build_block_time_mapping: the dict, as its list of (key, value) pairs;
\* DictLast reads it as a dict, a later pair replacing an earlier one
RECURSIVE _build_block_time_mapping(_)
_build_block_time_mapping(ths) ==
    IF ths = <<>> THEN <<>>
    ELSE LET th == Head(ths)
             col == TdColumn(th.id)
             raw == Strip(RemoveChars(th.text, {"\n", " "}))
         IN  (IF col # <<>> /\ raw # <<>> THEN << <<col[1], raw>> >> ELSE <<>>)
             \o _build_block_time_mapping(Tail(ths))

\* d.get(key, default)
DictLast(d, key, default) ==
    IF DictHas(d, key)
    THEN d[CHOOSE i \in 1..Len(d) :
               d[i][1] = key /\ \A j \in (i + 1)..Len(d) : d[j][1] # key][2]
    ELSE default

\* the time label of one available cell
CellTimeText(cell) ==
    LET col == TdColumn(cell.td_id)
    IN  IF col = <<>> \/ ~cell.row \/ cell.header = <<>> THEN TIME_UNKNOWN
        ELSE DictLast(_build_block_time_mapping(cell.header[1]), col[1],
                      TIME_UNKNOWN)

\* the facility label read from the row whether or not the id matched
Mut_CellCourtText_IgnoresId(cell) ==
    IF ~cell.row \/ cell.court_th = <<>>
    THEN COURT_UNKNOWN
    ELSE NormalizeSpace(cell.court_th[1])

\* the facility label of one available cell
CellCourtText(cell) ==
    IF TdColumn(cell.td_id) = <<>> \/ ~cell.row \/ cell.court_th = <<>>
    THEN COURT_UNKNOWN
    ELSE NormalizeSpace(cell.court_th[1])

\* the date label of the page: the h3 text, or the fallback when the h3 is
\* not found
PageDateText(h3) ==
    IF h3 = <<>> THEN DATE_UNKNOWN ELSE NormalizeSpace(h3[1])

\* the SlotInfo of one available cell
CellSlot(h3, cell) ==
    LET date_obj == _parse_reiwa_date(PageDateText(h3))
        parsed == _parse_time_range(CellTimeText(cell))
    IN  Slot(IF date_obj # <<>> THEN date_obj[1] ELSE today,
             IF parsed # <<>> THEN parsed[1] ELSE <<>>,
             IF parsed # <<>> THEN parsed[2] ELSE <<>>,
             CellCourtText(cell),
             IF cell.btn = <<>> THEN "" ELSE cell.btn[1])

\* scrape_one_day raises: the date label is parsed outside every try block
scrape_one_day_raises(h3) == _parse_reiwa_date_raises(PageDateText(h3))

\* scrape_one_day where it does not raise: one SlotInfo per available cell,
\* in document order
scrape_one_day(h3, ok_cells) ==
    [i \in 1..Len(ok_cells) |-> CellSlot(h3, ok_cells[i])]

----------------------------------------------------------------------------
(* Function-level specifications                                           *)

ValidIdle == v_pc = "idle" /\ v_start = <<>> /\ v_end = <<>> /\ v_ret = None

FilterIdle == f_pc = "idle" /\ f_slots = <<>> /\ f_ret = None

ConflictIdle ==
    c_pc = "idle" /\ c_slot = None /\ c_events = <<>> /\ c_ret = None

EntryIdle ==
    e_pc = "idle" /\ e_items = <<>> /\ e_busy = <<>> /\ e_range = <<>>

PageIdle ==
    /\ p_pc = "idle" /\ p_date_text = <<>> /\ p_cells = <<>>
    /\ p_slots = <<>> /\ p_cands = <<>> /\ p_cands2 = <<>> /\ p_again = <<>>

RunIdle ==
    /\ pc = "off" /\ grid = <<>> /\ page = 0 /\ events_cache = <<>>
    /\ all_results = <<>> /\ booked_slots = <<>> /\ next_clicks = 0
    /\ day_results = <<>> /\ calendar_ok = <<>> /\ first_slot = None
    /\ marker = FALSE /\ actions = <<>> /\ failures = {} /\ ret = "None"
    /\ scrapes = 0 /\ attempts = 0 /\ fetches = 0 /\ advances = 0

InitValid ==
    /\ INCLUDE_WEEKDAYS_FOR_DEBUG = TRUE
    /\ INCLUDE_ALL_TIME_SLOTS_FOR_DEBUG \in BOOLEAN
    /\ MAX_NEXT_CLICKS = <<>>
    /\ today = Date(2026, 3, 1)
    /\ ValidIdle /\ FilterIdle /\ ConflictIdle /\ EntryIdle /\ PageIdle
    /\ RunIdle

Call_is_valid_slot ==
    /\ v_pc = "idle"
    /\ \E st \in TimeTexts, en \in TimeTexts :
           /\ v_start' = st
           /\ v_end' = en
           /\ v_ret' = _is_valid_slot(st, en)
    /\ v_pc' = "done"
    /\ UNCHANGED <<cfgVars, filterVars, conflictVars, entryVars, pageVars, runVars>>

NextValid == Call_is_valid_slot

SpecValid == InitValid /\ [][NextValid]_vars

InitFilter ==
    /\ INCLUDE_WEEKDAYS_FOR_DEBUG \in BOOLEAN
    /\ INCLUDE_ALL_TIME_SLOTS_FOR_DEBUG \in BOOLEAN
    /\ MAX_NEXT_CLICKS = <<>>
    /\ today \in {Date(2026, 3, 1), Date(2026, 3, 2)}
    /\ f_pc = "idle" /\ f_ret = None
    /\ f_slots \in SeqsUpTo(FilterSlots, MaxSlots)
    /\ ValidIdle /\ ConflictIdle /\ EntryIdle /\ PageIdle /\ RunIdle

Call_get_reservation_candidates ==
    /\ f_pc = "idle"
    /\ f_ret' = get_reservation_candidates(f_slots)
    /\ f_pc' = "done"
    /\ UNCHANGED <<cfgVars, f_slots, validVars, conflictVars, entryVars,
                   pageVars, runVars>>

NextFilter == Call_get_reservation_candidates

SpecFilter == InitFilter /\ [][NextFilter]_vars

InitConflict ==
    /\ INCLUDE_WEEKDAYS_FOR_DEBUG = TRUE
    /\ INCLUDE_ALL_TIME_SLOTS_FOR_DEBUG = TRUE
    /\ MAX_NEXT_CLICKS = <<>>
    /\ today = Date(2026, 3, 1)
    /\ c_pc = "idle" /\ c_ret = None
    /\ c_slot \in ConflictSlots
    /\ c_events \in SeqsUpTo(BusyIntervals, MaxEvents)
    /\ ValidIdle /\ FilterIdle /\ EntryIdle /\ PageIdle /\ RunIdle

Call_has_calendar_conflict ==
    /\ c_pc = "idle"
    /\ c_ret' = IF has_calendar_conflict_raises(c_slot) THEN "ValueError"
                ELSE has_calendar_conflict(c_slot, c_events)
    /\ c_pc' = "done"
    /\ UNCHANGED <<cfgVars, c_slot, c_events, validVars, filterVars,
                   entryVars, pageVars, runVars>>

\* filter_by_calendar([slot], events_cache=events)
Call_filter_by_calendar ==
    /\ c_pc = "idle"
    /\ c_ret' = IF has_calendar_conflict_raises(c_slot) THEN "ValueError"
                ELSE filter_by_calendar(<<c_slot>>, c_events)
    /\ c_pc' = "filtered"
    /\ UNCHANGED <<cfgVars, c_slot, c_events, validVars, filterVars,
                   entryVars, pageVars, runVars>>

NextConflict == Call_has_calendar_conflict \/ Call_filter_by_calendar

SpecConflict == InitConflict /\ [][NextConflict]_vars

----------------------------------------------------------------------------
(* One results page: scrape_one_day, then get_reservation_candidates       *)

Th(id, text) == [id |-> id, text |-> text]

\* the time header row of a facility block
HeaderA ==
    <<Th(<<"t", "d", "0", "_", "8">>,
         <<"1", "3", ":", "0", "0", "nami", "1", "5", ":", "0", "0">>),
      Th(<<"t", "d", "0", "_", "9">>,
         <<"9", ":", "0", "0", " ", "-", "\n", "1", "1", ":", "0", "0">>),
      Th(<<"t", "d", "0", "_", "1", "0">>, <<"1", "3", ":", "0", "0">>),
      Th(<<"x">>, <<"1", "7", ":", "0", "0", "nami", "1", "9", ":", "0", "0">>),
      Th(<<"t", "d", "0", "_", "1", "1">>,
         <<"1", "0", "9", ":", "0", "0", "namidash", "1", "1", ":", "0", "0">>),
      Th(<<"t", "d", "0", "_", "1", "2">>, <<" ", "\n">>),
      Th(<<"t", "d", "0", "_", "1", "3">>,
         <<"1", "5", ":", "0", "0", "nami", "1", "3", ":", "0", "0">>)>>

\* an available cell as the driver shows it: its id, whether its row is
\* found, the header of its block, the row's first cell and the id of the
\* input element in it
RawCell(td_id, row, header, court_th, btn) ==
    [td_id |-> td_id, row |-> row, header |-> header, court_th |-> court_th,
     btn |-> btn]

CourtARaw == <<"higashi", "o", "gu", "un", "dou", "jou", " ", " ", "A">>

PageCells ==
    {RawCell(<<"t", "d", "0", "_">> \o col, TRUE, <<HeaderA>>, <<CourtARaw>>,
             <<"button0_8">>) :
        col \in {<<"8">>, <<"9">>, <<"1", "0">>, <<"1", "1">>, <<"1", "2">>,
                 <<"1", "3">>}}
    \cup {RawCell(<<"t", "d", "0", "_", "8">>, TRUE, <<>>, <<CourtARaw>>,
                  <<"button0_8">>),
          RawCell(<<"t", "d", "x">>, TRUE, <<HeaderA>>, <<CourtARaw>>,
                  <<"button0_8">>),
          RawCell(<<"t", "d", "0", "_", "8">>, FALSE, <<HeaderA>>,
                  <<CourtARaw>>, <<"button0_8">>),
          RawCell(<<"t", "d", "1", "_", "8">>, TRUE, <<HeaderA>>,
                  <<CourtOther>>, <<>>)}

\* the text of the page's h3, or nothing when the h3 is not found
H3Texts ==
    {<<>>,
     << <<"rei", "wa", "0", "8", "nen", "0", "3", "gatsu", "0", "7", "nichi",
          "(", "do", ")">> >>,
     << <<" ", "rei", "wa", "8", "nen", "3", "gatsu", "1", "0", "nichi", "\n",
          " ", "(", "ka", ")">> >>,
     << <<"rei", "wa", "8", "nen", "2", "gatsu", "3", "0", "nichi">> >>,
     << <<"2", "0", "2", "6", "-", "0", "3", "-", "0", "7">> >>,
     << <<"rei", "wa", "8", "nen", "2", "1", "4", "7", "4", "8", "3", "6",
          "4", "7", "gatsu", "1", "nichi">> >>,
     << <<"rei", "wa", "8", "nen", "1", "gatsu", "0", "2", "1", "4", "7", "4",
          "8", "3", "6", "4", "8", "nichi">> >>}

InitPage ==
    /\ INCLUDE_WEEKDAYS_FOR_DEBUG = TRUE
    /\ INCLUDE_ALL_TIME_SLOTS_FOR_DEBUG \in BOOLEAN
    /\ MAX_NEXT_CLICKS = <<>>
    /\ today = Date(2026, 3, 1)
    /\ p_pc = "idle"
    /\ p_date_text \in H3Texts
    /\ p_cells \in SeqsUpTo(PageCells, MaxSlots)
    /\ p_slots = <<>> /\ p_cands = <<>> /\ p_cands2 = <<>> /\ p_again = <<>>
    /\ ValidIdle /\ FilterIdle /\ ConflictIdle /\ EntryIdle /\ RunIdle

\* day_results = scrape_one_day(driver)
Page_Scrape ==
    /\ p_pc = "idle"
    /\ ~scrape_one_day_raises(p_date_text)
    /\ p_slots' = scrape_one_day(p_date_text, p_cells)
    /\ p_pc' = "scraped"
    /\ UNCHANGED <<cfgVars, validVars, filterVars, conflictVars, entryVars,
                   runVars, p_date_text, p_cells, p_cands, p_cands2, p_again>>

\* scrape_one_day(driver) ends by an exception
Page_ScrapeRaises ==
    /\ p_pc = "idle"
    /\ scrape_one_day_raises(p_date_text)
    /\ p_pc' = "raised"
    /\ UNCHANGED <<cfgVars, validVars, filterVars, conflictVars, entryVars,
                   runVars, p_date_text, p_cells, p_slots, p_cands, p_cands2,
                   p_again>>

\* candidates = get_reservation_candidates(day_results)
Page_Filter ==
    /\ p_pc = "scraped"
    /\ p_cands' = get_reservation_candidates(p_slots)
    /\ p_pc' = "filtered"
    /\ UNCHANGED <<cfgVars, validVars, filterVars, conflictVars, entryVars,
                   runVars, p_date_text, p_cells, p_slots, p_cands2, p_again>>

\* the same page scraped and filtered a second time (the loop comes back to
\* a page after a booking)
Page_ScrapeFilterAgain ==
    /\ p_pc = "filtered"
    /\ p_cands2' =
           get_reservation_candidates(scrape_one_day(p_date_text, p_cells))
    /\ p_pc' = "twice"
    /\ UNCHANGED <<cfgVars, validVars, filterVars, conflictVars, entryVars,
                   runVars, p_date_text, p_cells, p_slots, p_cands, p_again>>

\* get_reservation_candidates on its own result
Page_FilterCandidates ==
    /\ p_pc = "twice"
    /\ p_again' = get_reservation_candidates(p_cands)
    /\ p_pc' = "done"
    /\ UNCHANGED <<cfgVars, validVars, filterVars, conflictVars, entryVars,
                   runVars, p_date_text, p_cells, p_slots, p_cands, p_cands2>>

NextPage ==
    \/ Page_Scrape \/ Page_ScrapeRaises \/ Page_Filter
    \/ Page_ScrapeFilterAgain
    \/ Page_FilterCandidates

SpecPage == InitPage /\ [][NextPage]_vars

----------------------------------------------------------------------------
(* Calendar entries: fetch_calendar_busy_ranges and fetch_events_in_range  *)
(* of arakawa_calendar.py                                                  *)
(*                                                                         *)
(* An entry of the API's "items" has a start and an end, each a dict with  *)
(* an optional "dateTime" and an optional "date" text.  The offsets of     *)
(* the model's texts are whole hours.                                      *)

\* the number written by the digits of s at positions a..b
NumAt(s, a, b) == DigitsValue(SubSeq(s, a, b), 0)

AllDigits(s, a, b) == \A i \in a..b : IsDigit(s[i])

\* the text is YYYY-MM-DD
IsoDateShape(s) ==
    /\ Len(s) = 10
    /\ AllDigits(s, 1, 4) /\ s[5] = "-" /\ AllDigits(s, 6, 7) /\ s[8] = "-"
    /\ AllDigits(s, 9, 10)

\* date.fromisoformat(s) raises ValueError
IsoDateRaises(s) ==
    ~(/\ IsoDateShape(s)
      /\ ~DateRaises(NumAt(s, 1, 4), NumAt(s, 6, 7), NumAt(s, 9, 10)))

\* date.fromisoformat(s) where it does not raise
IsoDate(s) == Date(NumAt(s, 1, 4), NumAt(s, 6, 7), NumAt(s, 9, 10))

\* s.replace("Z", "+00:00")
RECURSIVE ReplaceZ(_)
ReplaceZ(s) ==
    IF s = <<>> THEN <<>>
    ELSE IF Head(s) = "Z"
         THEN <<"+", "0", "0", ":", "0", "0">> \o ReplaceZ(Tail(s))
         ELSE <<Head(s)>> \o ReplaceZ(Tail(s))

\* the text is HH:MM:SS from position i on, a time of day
ClockShape(s, i) ==
    /\ AllDigits(s, i, i + 1) /\ s[i + 2] = ":"
    /\ AllDigits(s, i + 3, i + 4) /\ s[i + 5] = ":"
    /\ AllDigits(s, i + 6, i + 7)
    /\ NumAt(s, i, i + 1) <= 23 /\ NumAt(s, i + 3, i + 4) <= 59
    /\ NumAt(s, i + 6, i + 7) <= 59

\* datetime.fromisoformat(s) raises ValueError; the texts are
\* YYYY-MM-DDTHH:MM:SS, with or without an offset +HH:00 or -HH:00
IsoDateTimeRaises(s) ==
    ~(/\ Len(s) \in {19, 25}
      /\ ~IsoDateRaises(SubSeq(s, 1, 10))
      /\ s[11] = "T"
      /\ ClockShape(s, 12)
      /\ Len(s) = 25 =>
            /\ s[20] \in {"+", "-"}
            /\ AllDigits(s, 21, 22) /\ s[23] = ":" /\ s[24] = "0"
            /\ s[25] = "0" /\ NumAt(s, 21, 22) <= 23)

\* datetime.fromisoformat(s) where it does not raise
IsoDateTime(s) ==
    [day |-> IsoDate(SubSeq(s, 1, 10)),
     sec |-> NumAt(s, 12, 13) * 3600 + NumAt(s, 15, 16) * 60
             + NumAt(s, 18, 19),
     aware |-> Len(s) = 25,
     off |-> IF Len(s) = 25
             THEN (IF s[20] = "-" THEN 0 - NumAt(s, 21, 22)
                   ELSE NumAt(s, 21, 22))
             ELSE 0]

\* datetime.combine(d, time(h, m, s), tzinfo=tz_jst)
CombineJst(d, h, m, sec) ==
    [day |-> d, sec |-> h * 3600 + m * 60 + sec, aware |-> TRUE, off |-> 9]

\* the loop body raises on entry e: end["dateTime"] is missing (KeyError) or
\* a dateTime text is refused (ValueError); the same in both functions
EntryRaises(e) ==
    /\ e.start.dateTime # <<>>
    /\ \/ IsoDateTimeRaises(ReplaceZ(e.start.dateTime[1]))
       \/ e.end.dateTime = <<>>
       \/ IsoDateTimeRaises(ReplaceZ(e.end.dateTime[1]))

Mut_busy_of_event_InclusiveEnd(e) ==
    IF e.start.dateTime # <<>>
    THEN << <<IsoDateTime(ReplaceZ(e.start.dateTime[1])),
              IsoDateTime(ReplaceZ(e.end.dateTime[1]))>> >>
    ELSE LET date_str == IF e.start.date # <<>> THEN e.start.date[1] ELSE <<>>
             end_date_str == IF e.end.date # <<>> THEN e.end.date[1]
                             ELSE date_str
         IN  IF date_str = <<>> THEN <<>>
             ELSE IF IsoDateRaises(date_str) THEN <<>>
             ELSE IF end_date_str # <<>> /\ IsoDateRaises(end_date_str)
                  THEN <<>>
             ELSE LET d == IsoDate(date_str)
                      end_d == IF end_date_str # <<>>
                               THEN IsoDate(end_date_str) ELSE d
                  IN  << <<CombineJst(d, 0, 0, 0),
                           CombineJst(end_d, 23, 59, 59)>> >>

\* fetch_calendar_busy_ranges, the body of "for e in events": the pair it
\* appends to busy, or nothing when it continues
busy_of_event(e) ==
    IF e.start.dateTime # <<>>
    THEN << <<IsoDateTime(ReplaceZ(e.start.dateTime[1])),
              IsoDateTime(ReplaceZ(e.end.dateTime[1]))>> >>
    ELSE LET date_str == IF e.start.date # <<>> THEN e.start.date[1] ELSE <<>>
             end_date_str == IF e.end.date # <<>> THEN e.end.date[1]
                             ELSE date_str
         IN  IF date_str = <<>> THEN <<>>
             ELSE IF IsoDateRaises(date_str) THEN <<>>
             ELSE IF end_date_str # <<>> /\ IsoDateRaises(end_date_str)
                  THEN <<>>
             ELSE LET d == IsoDate(date_str)
                      end_d == IF end_date_str # <<>>
                               THEN IsoDate(end_date_str) ELSE d
                      last_day == end_d - 1
                  IN  << <<CombineJst(d, 0, 0, 0),
                           CombineJst(last_day, 23, 59, 59)>> >>

\* fetch_events_in_range, the body of "for item in ...": the pair it appends
\* to result, or nothing when it continues
result_of_item(item) ==
    IF item.start.dateTime # <<>>
    THEN << <<IsoDateTime(ReplaceZ(item.start.dateTime[1])),
              IsoDateTime(ReplaceZ(item.end.dateTime[1]))>> >>
    ELSE LET date_str == IF item.start.date # <<>> THEN item.start.date[1]
                         ELSE <<>>
             end_date_str == IF item.end.date # <<>> THEN item.end.date[1]
                             ELSE date_str
         IN  IF date_str = <<>> THEN <<>>
             ELSE IF IsoDateRaises(date_str) THEN <<>>
             ELSE IF end_date_str # <<>> /\ IsoDateRaises(end_date_str)
                  THEN <<>>
             ELSE LET d == IsoDate(date_str)
                      end_d == IF end_date_str # <<>>
                               THEN IsoDate(end_date_str) ELSE d
                      last_day == end_d - 1
                  IN  << <<CombineJst(d, 0, 0, 0),
                           CombineJst(last_day, 23, 59, 59)>> >>

\* what a call gives: it raised, or the list it returns
Returned(list) == [raised |-> FALSE, list |-> list]

Raised == [raised |-> TRUE, list |-> <<>>]

RECURSIVE BusyList(_)
BusyList(events) ==
    IF events = <<>> THEN <<>>
    ELSE busy_of_event(Head(events)) \o BusyList(Tail(events))

fetch_calendar_busy_ranges(events) ==
    IF \E i \in 1..Len(events) : EntryRaises(events[i]) THEN Raised
    ELSE Returned(BusyList(events))

RECURSIVE ResultList(_)
ResultList(items) ==
    IF items = <<>> THEN <<>>
    ELSE result_of_item(Head(items)) \o ResultList(Tail(items))

fetch_events_in_range(items) ==
    IF \E i \in 1..Len(items) : EntryRaises(items[i]) THEN Raised
    ELSE Returned(ResultList(items))

\* a start or end dict of an entry
When(dateTime, date) == [dateTime |-> dateTime, date |-> date]

Entry(start, end) == [start |-> start, end |-> end]

\* the text YYYY-MM-DD of a day <<y, m, d>>
IsoText(t) ==
    <<Digits[(t[1] \div 1000) + 1], Digits[((t[1] \div 100) % 10) + 1],
      Digits[((t[1] \div 10) % 10) + 1], Digits[(t[1] % 10) + 1], "-",
      Digits[(t[2] \div 10) + 1], Digits[(t[2] % 10) + 1], "-",
      Digits[(t[3] \div 10) + 1], Digits[(t[3] % 10) + 1]>>

\* an all-day entry from day S to the exclusive end day E
AllDay(S, E) ==
    Entry(When(<<>>, <<IsoText(S)>>), When(<<>>, <<IsoText(E)>>))

AllDayPairs ==
    {<< <<2026, 3, 10>>, <<2026, 3, 11>> >>,
     << <<2026, 3, 30>>, <<2026, 4, 1>> >>,
     << <<2026, 2, 28>>, <<2026, 3, 1>> >>,
     << <<2026, 3, 10>>, <<2026, 3, 10>> >>}

\* the text YYYY-MM-DDTHH:00:00 followed by the offset text
IsoClockText(t, h, offset) ==
    IsoText(t) \o <<"T", Digits[(h \div 10) + 1], Digits[(h % 10) + 1], ":",
                    "0", "0", ":", "0", "0">> \o offset

JstOffsetText == <<"+", "0", "9", ":", "0", "0">>

EntryItems ==
    {AllDay(p[1], p[2]) : p \in AllDayPairs}
    \cup {Entry(When(<<>>, <<IsoText(<<2026, 3, 10>>)>>), When(<<>>, <<>>)),
          Entry(When(<<>>, <<IsoText(<<2026, 3, 10>>)>>),
                When(<<>>, << <<>> >>)),
          Entry(When(<<>>, <<>>), When(<<>>, <<IsoText(<<2026, 3, 11>>)>>)),
          Entry(When(<<>>, << <<"2", "0", "2", "6", "/", "0", "3", "/", "1",
                               "0">> >>),
                When(<<>>, <<IsoText(<<2026, 3, 11>>)>>)),
          Entry(When(<<>>, <<IsoText(<<2026, 3, 10>>)>>),
                When(<<>>, <<IsoText(<<2026, 2, 30>>)>>)),
          Entry(When(<<IsoClockText(<<2026, 3, 5>>, 10, JstOffsetText)>>, <<>>),
                When(<<IsoClockText(<<2026, 3, 5>>, 11, JstOffsetText)>>, <<>>)),
          Entry(When(<<IsoClockText(<<2026, 3, 5>>, 1, <<"Z">>)>>, <<>>),
                When(<<IsoClockText(<<2026, 3, 5>>, 2, <<"Z">>)>>, <<>>)),
          Entry(When(<<IsoClockText(<<2026, 3, 5>>, 10, JstOffsetText)>>, <<>>),
                When(<<>>, <<IsoText(<<2026, 3, 6>>)>>))}

InitEntry ==
    /\ INCLUDE_WEEKDAYS_FOR_DEBUG = TRUE
    /\ INCLUDE_ALL_TIME_SLOTS_FOR_DEBUG = TRUE
    /\ MAX_NEXT_CLICKS = <<>>
    /\ today = Date(2026, 3, 1)
    /\ e_pc = "idle"
    /\ e_items \in SeqsUpTo(EntryItems, MaxEvents)
    /\ e_busy = <<>> /\ e_range = <<>>
    /\ ValidIdle /\ FilterIdle /\ ConflictIdle /\ PageIdle /\ RunIdle

Call_fetch_calendar_busy_ranges ==
    /\ e_pc = "idle"
    /\ e_busy' = fetch_calendar_busy_ranges(e_items)
    /\ e_pc' = "busy"
    /\ UNCHANGED <<cfgVars, validVars, filterVars, conflictVars, pageVars,
                   runVars, e_items, e_range>>

Call_fetch_events_in_range ==
    /\ e_pc = "busy"
    /\ e_range' = fetch_events_in_range(e_items)
    /\ e_pc' = "done"
    /\ UNCHANGED <<cfgVars, validVars, filterVars, conflictVars, pageVars,
                   runVars, e_items, e_busy>>

NextEntry == Call_fetch_calendar_busy_ranges \/ Call_fetch_events_in_range

SpecEntry == InitEntry /\ [][NextEntry]_vars

----------------------------------------------------------------------------
(* Claims on the calendar conflict check                                   *)

\* the protected window as specified: [slotStart - buffer, slotEnd + buffer]
\* clamped to 00:00:00 and 23:59:59 of the slot's day, in absolute time
SpecWindowStart(slot) ==
    ToUTC([day |-> slot.date_obj, aware |-> TRUE, off |-> TZ_OFFSET_HOURS,
           sec |-> Max(0, _parse_time_to_minutes(slot.start_time) * 60
                          - HOURS_BUFFER * 3600)])

SpecWindowEnd(slot) ==
    ToUTC([day |-> slot.date_obj, aware |-> TRUE, off |-> TZ_OFFSET_HOURS,
           sec |-> Min(86399, _parse_time_to_minutes(slot.end_time) * 60
                              + HOURS_BUFFER * 3600)])

SpecOverlap(slot, ev) ==
    /\ DtLess(ToUTC(ev[1]), SpecWindowEnd(slot))
    /\ DtLess(SpecWindowStart(slot), ToUTC(ev[2]))

Resolved(slot) == slot.start_time # <<>> /\ slot.end_time # <<>>

\* C2: for a slot with resolved times, has_calendar_conflict returns True
\* exactly when some busy interval B has B.start < W.end and
\* B.end > W.start, W being the protected window clamped to the slot's day.
C2_ConflictIffOverlap ==
    (c_pc = "done" /\ Resolved(c_slot)) =>
        (c_ret = TRUE <=>
            \E i \in 1..Len(c_events) : SpecOverlap(c_slot, c_events[i]))

Is1300to1500(slot) ==
    slot.start_time = HHMM(13, 0) /\ slot.end_time = HHMM(15, 0)

\* C3: for the slot 13:00-15:00 with the 2-hour buffer, a busy interval
\* [16:00, 16:30] of that day conflicts and [17:00, 18:00] does not; no busy
\* interval that starts exactly at slotEnd + buffer conflicts.
C3_OpenBoundary ==
    (c_pc = "done" /\ Resolved(c_slot)) =>
        /\ (Is1300to1500(c_slot)
              /\ c_events = << <<Jst(c_slot.date_obj, 16, 0, 0),
                                 Jst(c_slot.date_obj, 16, 30, 0)>> >>)
             => c_ret = TRUE
        /\ (Is1300to1500(c_slot)
              /\ c_events = << <<Jst(c_slot.date_obj, 17, 0, 0),
                                 Jst(c_slot.date_obj, 18, 0, 0)>> >>)
             => c_ret = FALSE
        /\ (\A i \in 1..Len(c_events) :
               ToUTC(c_events[i][1]) = SpecWindowEnd(c_slot))
             => c_ret = FALSE

\* the text is a time of day, 00:00 to 23:59
IsTimeOfDay(t) == \E h \in 0..23, m \in 0..59 : t = HHMM(h, m)

\* the busy interval lies on one local day other than day d
OnOtherDay(ev, d) ==
    /\ ev[1].aware /\ ev[1].off = TZ_OFFSET_HOURS /\ ev[1].day # d
    /\ ev[2].aware /\ ev[2].off = TZ_OFFSET_HOURS /\ ev[2].day = ev[1].day

\* C18: for a slot whose start and end are times of day, the protected
\* window of has_calendar_conflict lies within the slot's day: it starts at
\* 00:00:00 at the earliest and ends at 23:59:59 at the latest, also when
\* start - buffer or end + buffer crosses midnight; so the call does not
\* raise, and busy intervals of other days do not conflict.
C18_WindowWithinDay ==
    (c_pc = "done" /\ IsTimeOfDay(c_slot.start_time)
       /\ IsTimeOfDay(c_slot.end_time)) =>
        LET ws == check_start_dt(c_slot.date_obj,
                                 _parse_time_to_minutes(c_slot.start_time))
            we == check_end_dt(c_slot.date_obj,
                               _parse_time_to_minutes(c_slot.end_time))
        IN  /\ ws.day = c_slot.date_obj /\ ws.sec \in 0..86399
            /\ we.day = c_slot.date_obj /\ we.sec \in 0..86399
            /\ c_slot.start_time = HHMM(0, 30) => ws.sec = 0
            /\ c_slot.end_time = HHMM(23, 30) => we.sec = 86399
            /\ c_ret \in BOOLEAN
            /\ (\A i \in 1..Len(c_events) :
                   OnOtherDay(c_events[i], c_slot.date_obj))
                 => c_ret = FALSE

C18_Witness ==
    /\ c_pc = "done"
    /\ c_slot.start_time = HHMM(22, 0) /\ c_slot.end_time = HHMM(23, 30)
    /\ c_events = << <<Jst(c_slot.date_obj + 1, 0, 0, 0),
                       Jst(c_slot.date_obj + 1, 23, 59, 59)>> >>
    /\ c_ret = FALSE

\* C19: a slot whose start or end time is unset never conflicts:
\* has_calendar_conflict returns False for it whatever the busy intervals
\* are, and filter_by_calendar keeps it.
C19_UnresolvedNeverConflicts ==
    (c_pc \in {"done", "filtered"} /\ ~Resolved(c_slot)) =>
        /\ c_pc = "done" => c_ret = FALSE
        /\ c_pc = "filtered" => c_ret = <<c_slot>>

C19_Witness ==
    /\ c_pc = "filtered" /\ c_slot.start_time = HHMM(13, 0)
    /\ c_slot.end_time = <<>>
    /\ Len(c_events) = 2
    /\ c_events[1] = <<Jst(DayD, 11, 0, 0), Jst(DayD, 16, 0, 0)>>
    /\ c_ret = <<c_slot>>

----------------------------------------------------------------------------
(* Claims on the time rule                                                 *)

\* the text of the time two hours after the time of text st
TwoHoursAfter(st) ==
    LET m == _parse_time_to_minutes(st) + 120
    IN  HHMM(m \div 60, m % 60)

\* C4: in restricted mode every start time of the allow-list, with the end
\* two hours later, passes _is_valid_slot.
C4_EveryAllowedStartPasses ==
    (v_pc = "done" /\ ~INCLUDE_ALL_TIME_SLOTS_FOR_DEBUG
       /\ InTuple(v_start, VALID_START_TIMES)
       /\ v_end = TwoHoursAfter(v_start))
    => v_ret = TRUE

\* C5: in restricted mode a slot passes _is_valid_slot only if its start is
\* in the allow-list and its end is exactly two hours later; 09:00/11:00
\* passes, 09:00/10:30 fails, a start of 08:00 fails whatever the end.
C5_RestrictedOnlyAllowedTwoHours ==
    (v_pc = "done" /\ ~INCLUDE_ALL_TIME_SLOTS_FOR_DEBUG) =>
        /\ v_ret = TRUE =>
              /\ InTuple(v_start, VALID_START_TIMES)
              /\ v_end = TwoHoursAfter(v_start)
        /\ (v_start = HHMM(9, 0) /\ v_end = HHMM(11, 0)) => v_ret = TRUE
        /\ (v_start = HHMM(9, 0) /\ v_end = HHMM(10, 30)) => v_ret = FALSE
        /\ v_start = HHMM(8, 0) => v_ret = FALSE
        /\ ~InTuple(v_start, VALID_START_TIMES) => v_ret = FALSE

C5_Witness ==
    /\ v_pc = "done" /\ ~INCLUDE_ALL_TIME_SLOTS_FOR_DEBUG
    /\ v_start = HHMM(9, 0) /\ v_end = HHMM(10, 30) /\ v_ret = FALSE

----------------------------------------------------------------------------
(* Claims on the date floor                                                *)

InSeq(x, q) == \E i \in 1..Len(q) : q[i] = x

\* the rules of the filter other than the date floor
OtherRules(s) ==
    /\ INCLUDE_WEEKDAYS_FOR_DEBUG \/ _is_weekend_or_holiday(s.date_obj)
    /\ _is_valid_slot(s.start_time, s.end_time)
    /\ _is_court_in_scope(s.court)

----------------------------------------------------------------------------
(* Claims on the eligibility filter                                        *)

\* the time rule as specified: in restricted mode an allow-listed start with
\* the end two hours later, in relaxed mode two times of the form HH:MM
SpecTimeRule(s) ==
    IF INCLUDE_ALL_TIME_SLOTS_FOR_DEBUG
    THEN MatchHHMM(s.start_time) /\ MatchHHMM(s.end_time)
    ELSE /\ InTuple(s.start_time, VALID_START_TIMES)
         /\ s.end_time = TwoHoursAfter(s.start_time)

SpecEligible(s) ==
    /\ s.date_obj > today + MIN_DAYS_AHEAD
    /\ SpecTimeRule(s)
    /\ INCLUDE_WEEKDAYS_FOR_DEBUG
          \/ Weekday(s.date_obj) \in {5, 6} \/ s.date_obj \in JpHolidays
    /\ \E i \in 1..Len(PARK_KEYWORDS) : Contains(s.court, PARK_KEYWORDS[i])

\* C11: get_reservation_candidates returns exactly the sublist of its input,
\* in input order, of the slots that pass the date floor, the time rule, the
\* weekend-or-holiday rule when it is enabled, and the facility allow-list.
C11_ExactSublist ==
    f_pc = "done" => f_ret = SelectSeq(f_slots, SpecEligible)

\* the time label of cell i of the page is the "unknown" label or matches
\* the range pattern nowhere
UnresolvedLabel(i) ==
    \/ CellTimeText(p_cells[i]) = TIME_UNKNOWN
    \/ _parse_time_range(CellTimeText(p_cells[i])) = <<>>

\* C12: a slot whose start or end time is unset is never a candidate, in
\* restricted and in relaxed mode; every record whose time label is "unknown"
\* or does not match the range pattern is such a slot.
C12_UnsetTimesNeverCandidate ==
    p_pc \in {"filtered", "twice", "done"} =>
        /\ \A i \in 1..Len(p_cands) :
               p_cands[i].start_time # <<>> /\ p_cands[i].end_time # <<>>
        /\ \A i \in 1..Len(p_cells) :
               UnresolvedLabel(i) =>
                   /\ p_slots[i].start_time = <<>>
                   /\ p_slots[i].end_time = <<>>
                   /\ ~InSeq(p_slots[i], p_cands)

C12_Witness ==
    /\ p_pc = "filtered" /\ Len(p_cells) = 2
    /\ CellTimeText(p_cells[1]) = TIME_UNKNOWN
    /\ p_slots[1].date_obj > today + MIN_DAYS_AHEAD
    /\ _is_court_in_scope(p_slots[1].court)
    /\ p_cands = <<p_slots[2]>>

C21_EndAfterStart ==
    p_pc # "idle" =>
        \A i \in 1..Len(p_slots) :
            (p_slots[i].start_time # <<>> /\ p_slots[i].end_time # <<>>) =>
                /\ _parse_time_to_minutes(p_slots[i].start_time)
                       < _parse_time_to_minutes(p_slots[i].end_time)
                /\ _parse_time_to_minutes(p_slots[i].end_time) < 24 * 60

\* the identifier of cell i of the page matches td<row>_<column>
IdMatches(i) == TdColumn(p_cells[i].td_id) # <<>>

\* C22 as stated: an available cell whose identifier does not match the
\* pattern produces no record in the page's slot list.
C22_NonMatchingIdSkipped ==
    p_pc \notin {"idle", "raised"} =>
        Len(p_slots) = Cardinality({i \in 1..Len(p_cells) : IdMatches(i)})

\* C22 as amended: an available cell whose identifier does not match the
\* pattern is not skipped: it produces one record in the page's slot list,
\* at its place, with the facility label "unknown" and empty start and end
\* times.
C22_NonMatchingIdKeptUnknown ==
    p_pc \notin {"idle", "raised"} =>
        /\ Len(p_slots) = Len(p_cells)
        /\ \A i \in 1..Len(p_cells) :
               ~IdMatches(i) =>
                   /\ p_slots[i].court = COURT_UNKNOWN
                   /\ p_slots[i].start_time = <<>>
                   /\ p_slots[i].end_time = <<>>

C22_Witness ==
    /\ p_pc = "scraped" /\ Len(p_cells) = 2
    /\ ~IdMatches(1) /\ p_cells[1].row /\ p_cells[1].court_th # <<>>
    /\ IdMatches(2) /\ p_slots[2].start_time # <<>>
    /\ p_slots[1].court = COURT_UNKNOWN

\* the date label of the page is unparseable: the h3 is missing, or its
\* text holds no Reiwa date, or the date it holds does not exist
UnparseableDate ==
    \/ p_date_text = <<>>
    \/ \A i \in 1..Len(p_date_text[1]) : ~ReiwaAt(p_date_text[1], i)
    \/ _parse_reiwa_date(PageDateText(p_date_text)) = <<>>

\* the claim handle of cell i of the page
ClaimHandle(i) == IF p_cells[i].btn = <<>> THEN "" ELSE p_cells[i].btn[1]

\* C23: normalisation is total and record-preserving: whatever the date
\* label and the time labels, no exception escapes the scrape and every raw
\* record gives exactly one Slot, at its place in document order; an
\* unparseable date label gives date = today, and a time label that matches
\* the range pattern nowhere gives empty start and end.
C23_TotalAndPreserving ==
    /\ p_pc # "raised"
    /\ p_pc # "idle" =>
           /\ Len(p_slots) = Len(p_cells)
           /\ \A i \in 1..Len(p_slots) :
                  /\ p_slots[i].button_id = ClaimHandle(i)
                  /\ UnparseableDate => p_slots[i].date_obj = today
                  /\ UnresolvedLabel(i) =>
                         /\ p_slots[i].start_time = <<>>
                         /\ p_slots[i].end_time = <<>>

----------------------------------------------------------------------------
(* Claims on the calendar entries                                          *)

DayOf(t) == Date(t[1], t[2], t[3])

\* the busy interval specified for an all-day entry from S to the exclusive
\* end E: [S 00:00:00, (E - 1 day) 23:59:59] in local time
SpecAllDay(S, E) ==
    <<[day |-> DayOf(S), sec |-> 0, aware |-> TRUE, off |-> TZ_OFFSET_HOURS],
      [day |-> DayOf(E) - 1, sec |-> 23 * 3600 + 59 * 60 + 59, aware |-> TRUE,
       off |-> TZ_OFFSET_HOURS]>>

\* C17: an all-day entry with start date S and exclusive end date E > S
\* normalizes to [S 00:00:00, (E - 1 day) 23:59:59] in local time, for a
\* single day D (end D + 1) to [D 00:00:00, D 23:59:59]; both fetch
\* functions give the same interval for the same entry.
C17_AllDayInterval ==
    e_pc = "done" =>
        /\ e_range = e_busy
        /\ ~e_busy.raised =>
              \A i \in 1..Len(e_items) : \A p \in AllDayPairs :
                  (e_items[i] = AllDay(p[1], p[2]) /\ DayOf(p[2]) > DayOf(p[1]))
                  => /\ InSeq(SpecAllDay(p[1], p[2]), e_busy.list)
                     /\ InSeq(SpecAllDay(p[1], p[2]), e_range.list)
                     /\ Len(e_items) = 1 =>
                           e_busy.list = <<SpecAllDay(p[1], p[2])>>

C17_Witness ==
    /\ e_pc = "done"
    /\ e_items = <<AllDay(<<2026, 3, 30>>, <<2026, 4, 1>>),
                   AllDay(<<2026, 2, 28>>, <<2026, 3, 1>>)>>
    /\ e_busy.list = <<SpecAllDay(<<2026, 3, 30>>, <<2026, 4, 1>>),
                       <<Jst(Date(2026, 2, 28), 0, 0, 0),
                         Jst(Date(2026, 2, 28), 23, 59, 59)>> >>
    /\ e_range = e_busy

\* the interval does not end before it starts
WellFormed(iv) == ~DtLess(ToUTC(iv[2]), ToUTC(iv[1]))

\* C29: every busy interval the calendar normalisation produces has its
\* start not later than its end, for every all-day entry the fetch accepts,
\* an entry whose end date is missing or equal to its start date included.
C29_BusyIntervalsWellFormed ==
    /\ e_pc \in {"busy", "done"} =>
           \A i \in 1..Len(e_busy.list) : WellFormed(e_busy.list[i])
    /\ e_pc = "done" =>
           \A i \in 1..Len(e_range.list) : WellFormed(e_range.list[i])

----------------------------------------------------------------------------
(* The run: __main__, scrape_all_days, try_book_first_candidate            *)
(*                                                                         *)
(* An optional value (MAX_NEXT_CLICKS, events_cache) is a sequence of      *)
(* length 0 (None) or 1.  The page driver is the environment: every wait   *)
(* may time out, and the site shows results page `page` of `grid`, one day *)
(* per page.  `actions`, `failures`, `marker`, `ret` and `scrapes` record  *)
(* what the current booking attempt and the loop did.                      *)

DO_BOOK_FIRST_CANDIDATE == TRUE

MaxPages == 2

MaxClicksCfg == 1

\* the recorded bookings up to which a run with unanswered prompts is followed
MaxBooked == 2

\* the day shown on results page p
PageDate(p) == Date(2026, 3, 4) + p

\* the available cells of a page: time range, court, id of the cell's button
Cell(st, en, court, btn) ==
    [start_time |-> st, end_time |-> en, court |-> court, button_id |-> btn]

PageKinds ==
    {<<>>,
     <<Cell(<<>>, <<>>, CourtA, "button0_1"),
       Cell(HHMM(13, 0), HHMM(15, 0), CourtA, "button0_8"),
       Cell(HHMM(17, 0), HHMM(19, 0), CourtA, "button0_12")>>,
     <<Cell(HHMM(9, 0), HHMM(11, 0), CourtOther, "button2_2"),
       Cell(HHMM(9, 0), HHMM(11, 0), CourtA, "")>>}

MkPage(kind, p) ==
    [i \in 1..Len(kind) |->
        Slot(PageDate(p), kind[i].start_time, kind[i].end_time,
             kind[i].court, kind[i].button_id)]

Grids ==
    {[p \in 1..Len(ks) |-> MkPage(ks[p], p)] :
        ks \in SeqsUpTo(PageKinds, MaxPages) \ {<<>>}}

\* what fetch_calendar_busy_ranges may return
Caches ==
    {<<>>,
     << <<Jst(PageDate(1), 11, 30, 0), Jst(PageDate(1), 12, 0, 0)>> >>}

Init ==
    /\ INCLUDE_WEEKDAYS_FOR_DEBUG = TRUE
    /\ INCLUDE_ALL_TIME_SLOTS_FOR_DEBUG = TRUE
    /\ MAX_NEXT_CLICKS \in {<<>>} \cup {<<n>> : n \in 0..MaxClicksCfg}
    /\ today = Date(2026, 3, 1)
    /\ ValidIdle /\ FilterIdle /\ ConflictIdle /\ EntryIdle /\ PageIdle
    /\ pc = "init_calendar_cache"
    /\ grid \in Grids
    /\ page = 1
    /\ events_cache = <<>>
    /\ all_results = <<>> /\ booked_slots = <<>> /\ next_clicks = 0
    /\ day_results = <<>> /\ calendar_ok = <<>> /\ first_slot = None
    /\ marker = FALSE /\ actions = <<>> /\ failures = {} /\ ret = "None"
    /\ scrapes = 0 /\ attempts = 0 /\ fetches = 0 /\ advances = 0

pureVars ==
    <<cfgVars, validVars, filterVars, conflictVars, entryVars, pageVars>>

\* __main__: init_calendar_cache, then make_driver and open_and_login bring
\* the driver to the first results page
InitCalendarCache_Ok ==
    /\ pc = "init_calendar_cache"
    /\ \E cache \in Caches : events_cache' = <<cache>>
    /\ fetches' = fetches + 1
    /\ pc' = "scrape"
    /\ UNCHANGED <<pureVars, grid, page, all_results, booked_slots,
                   next_clicks, day_results, calendar_ok, first_slot, marker,
                   actions, failures, ret, scrapes, attempts, advances>>

InitCalendarCache_Error ==
    /\ pc = "init_calendar_cache"
    /\ events_cache' = <<>>
    /\ fetches' = fetches
    /\ pc' = "scrape"
    /\ UNCHANGED <<pureVars, grid, page, all_results, booked_slots,
                   next_clicks, day_results, calendar_ok, first_slot, marker,
                   actions, failures, ret, scrapes, attempts, advances>>

\* the test of the cache written as "if events_cache:", which an empty list
\* fails
Mut_filter_by_calendar_fetches_Truthy(candidates, cache) ==
    IF candidates = <<>> THEN 0
    ELSE IF cache # <<>> /\ cache[1] # <<>> THEN 0
    ELSE 1

\* the fetches filter_by_calendar(candidates, events_cache=cache) makes: one
\* (fetch_events_in_range) when it is given no cache and some candidate
filter_by_calendar_fetches(candidates, cache) ==
    IF candidates = <<>> THEN 0
    ELSE IF cache # <<>> THEN 0
    ELSE 1

\* the candidates of a page passed on without the calendar check
Mut_CalendarOk_IgnoresCache(candidates) == candidates

\* the candidates of a page after the calendar check
CalendarOk(candidates) ==
    IF events_cache # <<>>
    THEN filter_by_calendar(candidates, events_cache[1])
    ELSE candidates

\* filter_by_calendar raises when has_calendar_conflict does
CalendarRaises(candidates) ==
    /\ events_cache # <<>>
    /\ \E i \in 1..Len(candidates) : has_calendar_conflict_raises(candidates[i])

\* the fetches of one pass: filter_by_calendar_func is called when the page
\* has candidates and init_calendar_cache gave a cache
CalendarFetches(results) ==
    LET candidates == IF results = <<>> THEN <<>>
                      ELSE get_reservation_candidates(results)
    IN  IF candidates # <<>> /\ events_cache # <<>>
        THEN filter_by_calendar_fetches(candidates, events_cache)
        ELSE 0

\* one pass of the loop body up to the call of try_book_first_candidate
ScrapePage ==
    /\ pc = "scrape"
    /\ LET results == grid[page]
           candidates == IF results = <<>> THEN <<>>
                         ELSE get_reservation_candidates(results)
           ok == IF candidates = <<>> THEN <<>> ELSE CalendarOk(candidates)
       IN  /\ day_results' = results
           /\ all_results' = all_results \o results
           /\ calendar_ok' = ok
           /\ IF candidates # <<>> /\ CalendarRaises(candidates)
              THEN pc' = "raised" /\ UNCHANGED first_slot
              ELSE IF ok # <<>> /\ DO_BOOK_FIRST_CANDIDATE
              THEN pc' = "book_entry" /\ first_slot' = ok[1]
              ELSE pc' = "max_check" /\ UNCHANGED first_slot
    /\ scrapes' = scrapes + 1
    /\ attempts' = 0
    /\ fetches' = fetches + CalendarFetches(grid[page])
    /\ marker' = FALSE /\ actions' = <<>> /\ failures' = {} /\ ret' = "None"
    /\ UNCHANGED <<pureVars, grid, page, events_cache, booked_slots,
                   next_clicks, advances>>

loopVars ==
    <<events_cache, all_results, booked_slots, next_clicks, day_results,
      calendar_ok, first_slot, scrapes, attempts, fetches, advances>>

\* what a call of try_book_first_candidate leaves alone in the loop
tryVars ==
    <<events_cache, all_results, booked_slots, next_clicks, day_results,
      calendar_ok, first_slot, scrapes, fetches, advances>>

\* the site no longer offers a slot that has been reserved
RemoveSlot(g, slot) ==
    [p \in 1..Len(g) |-> SelectSeq(g[p], LAMBDA x : x # slot)]

\* the attempt without the check of the claim handle
Mut_TryBook_NoButton_Proceeds ==
    /\ pc = "book_entry"
    /\ first_slot.button_id = ""
    /\ marker' = FALSE /\ actions' = <<>> /\ failures' = {}
    /\ ret' = "None"
    /\ attempts' = attempts + 1
    /\ pc' = "book_slot_btn"
    /\ UNCHANGED <<pureVars, tryVars, grid, page>>

\* try_book_first_candidate: if not first_slot.button_id: return False
TryBook_NoButton ==
    /\ pc = "book_entry"
    /\ first_slot.button_id = ""
    /\ marker' = FALSE /\ actions' = <<>> /\ failures' = {}
    /\ ret' = "False"
    /\ attempts' = attempts + 1
    /\ pc' = "book_return"
    /\ UNCHANGED <<pureVars, tryVars, grid, page>>

TryBook_Enter ==
    /\ pc = "book_entry"
    /\ first_slot.button_id # ""
    /\ marker' = FALSE /\ actions' = <<>> /\ failures' = {}
    /\ ret' = "None"
    /\ attempts' = attempts + 1
    /\ pc' = "book_slot_btn"
    /\ UNCHANGED <<pureVars, tryVars, grid, page>>

\* a wait and the action on the element it found, both succeeding
StepOk(at, act, to) ==
    /\ pc = at
    /\ actions' = Append(actions, act)
    /\ pc' = to
    /\ UNCHANGED <<pureVars, loopVars, grid, page, marker, failures, ret>>

\* 1: the slot's button
Book_ClaimHandle == StepOk("book_slot_btn", "claim", "book_yy")

\* the list button leading straight to the submit, the payment method never
\* selected
Mut_Book_YyList_SkipsPayment == StepOk("book_yy", "yy_list", "book_submit")

\* 2: btnYyList
Book_YyList == StepOk("book_yy", "yy_list", "book_select")

\* 3: ryosyuhhSelect, value 7
Book_Payment == StepOk("book_select", "payment", "book_submit")

\* 4: btnOK
Book_Submit == StepOk("book_submit", "submit", "book_check")

HardSteps ==
    {"book_slot_btn", "book_yy", "book_select", "book_submit", "book_link"}

Mut_Book_StepFails_ReturnsTrue ==
    /\ pc \in HardSteps
    /\ failures' = failures \cup {pc}
    /\ ret' = "True"
    /\ pc' = "book_return"
    /\ UNCHANGED <<pureVars, loopVars, grid, page, marker, actions>>

\* a wait or an action of these steps raises: the outer except returns False
Book_StepFails ==
    /\ pc \in HardSteps
    /\ failures' = failures \cup {pc}
    /\ ret' = "False"
    /\ pc' = "book_return"
    /\ UNCHANGED <<pureVars, loopVars, grid, page, marker, actions>>

\* the view after the submit shows "already reserved by another user": the
\* slot has gone to that user
Book_Check_Marker ==
    /\ pc = "book_check"
    /\ marker' = TRUE
    /\ grid' = RemoveSlot(grid, first_slot)
    /\ pc' = "book_back"
    /\ UNCHANGED <<pureVars, loopVars, page, actions, failures, ret>>

Book_Check_NoMarker ==
    /\ pc = "book_check"
    /\ pc' = "book_link"
    /\ UNCHANGED <<pureVars, loopVars, grid, page, marker, actions,
                   failures, ret>>

\* find_element(body) raises: the inner except passes
Book_Check_Fails ==
    /\ pc = "book_check"
    /\ failures' = failures \cup {pc}
    /\ pc' = "book_link"
    /\ UNCHANGED <<pureVars, loopVars, grid, page, marker, actions, ret>>

Book_Back_Ok == StepOk("book_back", "back", "book_renav")

\* the back button is not found: the inner except passes
Book_Back_Fails ==
    /\ pc = "book_back"
    /\ failures' = failures \cup {pc}
    /\ pc' = "book_link"
    /\ UNCHANGED <<pureVars, loopVars, grid, page, marker, actions, ret>>

Mut_Book_Renav_Ok_StaysOnPage ==
    /\ pc = "book_renav"
    /\ actions' = Append(actions, "navigate")
    /\ ret' = "False"
    /\ pc' = "book_return"
    /\ UNCHANGED <<pureVars, loopVars, grid, page, marker, failures>>

\* navigate_from_menu_to_search, then return False
Book_Renav_Ok ==
    /\ pc = "book_renav"
    /\ actions' = Append(actions, "navigate")
    /\ page' = 1
    /\ ret' = "False"
    /\ pc' = "book_return"
    /\ UNCHANGED <<pureVars, loopVars, grid, marker, failures>>

\* navigate_from_menu_to_search raises: the inner except passes
Book_Renav_Fails ==
    /\ pc = "book_renav"
    /\ failures' = failures \cup {pc}
    /\ pc' = "book_link"
    /\ UNCHANGED <<pureVars, loopVars, grid, page, marker, actions, ret>>

\* 5: the confirmation link, which brings up the prompt "confirm the
\* reservation?"
Book_Link_Ok == StepOk("book_link", "confirm_link", "book_alert")

\* 6: the prompt is accepted; the site reserves the slot
Book_Alert_Accept ==
    /\ pc = "book_alert"
    /\ actions' = Append(actions, "alert_accept")
    /\ grid' = RemoveSlot(grid, first_slot)
    /\ pc' = "book_final"
    /\ UNCHANGED <<pureVars, loopVars, page, marker, failures, ret>>

\* the wait for the prompt times out and the inner except passes; the site
\* showed no prompt and has reserved the slot
Book_Alert_Absent ==
    /\ pc = "book_alert"
    /\ failures' = failures \cup {pc}
    /\ grid' = RemoveSlot(grid, first_slot)
    /\ pc' = "book_final"
    /\ UNCHANGED <<pureVars, loopVars, page, marker, actions, ret>>

\* the wait for the prompt times out and the inner except passes; the
\* prompt was never answered and the site has reserved nothing.  Such a run
\* is followed while fewer than MaxBooked slots would be recorded; it is a
\* behaviour of SpecUnanswered.
Book_Alert_Unanswered ==
    /\ pc = "book_alert"
    /\ Len(booked_slots) + 1 < MaxBooked
    /\ failures' = failures \cup {pc}
    /\ pc' = "book_final"
    /\ UNCHANGED <<pureVars, loopVars, grid, page, marker, actions, ret>>

\* 7: the final link back to the menu, then return True
Book_Final_Ok ==
    /\ pc = "book_final"
    /\ actions' = Append(actions, "final_link")
    /\ ret' = "True"
    /\ pc' = "book_return"
    /\ UNCHANGED <<pureVars, loopVars, grid, page, marker, failures>>

Book_Final_Fails ==
    /\ pc = "book_final"
    /\ failures' = failures \cup {pc}
    /\ ret' = "True"
    /\ pc' = "book_return"
    /\ UNCHANGED <<pureVars, loopVars, grid, page, marker, actions>>

attemptVars == <<marker, actions, failures, ret>>

\* if try_book_first_candidate(...): booked_slots.append(first_slot)
AfterBook_True ==
    /\ pc = "book_return" /\ ret = "True"
    /\ booked_slots' = Append(booked_slots, first_slot)
    /\ pc' = "booked_nav"
    /\ UNCHANGED <<pureVars, attemptVars, grid, page, events_cache,
                   all_results, next_clicks, day_results, calendar_ok,
                   first_slot, scrapes, attempts, fetches, advances>>

Mut_AfterBook_False_EndsRun ==
    /\ pc = "book_return" /\ ret = "False"
    /\ pc' = "returned"
    /\ UNCHANGED <<pureVars, attemptVars, loopVars, grid, page>>

\* a not-booked attempt followed by an attempt on the page's next candidate
Mut_AfterBook_False_TriesNext ==
    /\ pc = "book_return" /\ ret = "False"
    /\ IF Len(calendar_ok) >= 2 /\ first_slot = calendar_ok[1]
       THEN pc' = "book_entry" /\ first_slot' = calendar_ok[2]
       ELSE pc' = "max_check" /\ UNCHANGED first_slot
    /\ UNCHANGED <<pureVars, attemptVars, grid, page, events_cache,
                   all_results, booked_slots, next_clicks, day_results,
                   calendar_ok, scrapes, attempts, fetches, advances>>

AfterBook_False ==
    /\ pc = "book_return" /\ ret = "False"
    /\ pc' = "max_check"
    /\ UNCHANGED <<pureVars, attemptVars, loopVars, grid, page>>

\* the restart from the first results page with the counter of page
\* advances set back to zero
Mut_BookedNav_Ok_ResetsCounter ==
    /\ pc = "booked_nav"
    /\ page' = 1
    /\ next_clicks' = 0
    /\ pc' = "scrape"
    /\ UNCHANGED <<pureVars, attemptVars, grid, events_cache, all_results,
                   booked_slots, day_results, calendar_ok, first_slot,
                   scrapes, attempts, fetches, advances>>

\* navigate_from_menu_to_search(driver); continue
BookedNav_Ok ==
    /\ pc = "booked_nav"
    /\ page' = 1
    /\ pc' = "scrape"
    /\ UNCHANGED <<pureVars, attemptVars, loopVars, grid>>

\* a wait of navigate_from_menu_to_search times out: nothing catches it
BookedNav_Raises ==
    /\ pc = "booked_nav"
    /\ pc' = "raised"
    /\ UNCHANGED <<pureVars, attemptVars, loopVars, grid, page>>

MaxReached ==
    MAX_NEXT_CLICKS # <<>> /\ next_clicks >= MAX_NEXT_CLICKS[1]

MaxCheck ==
    /\ pc = "max_check"
    /\ pc' = IF MaxReached THEN "returned" ELSE "next_wait"
    /\ UNCHANGED <<pureVars, attemptVars, loopVars, grid, page>>

\* the next control is there while a later results page exists
NextWait_Found ==
    /\ pc = "next_wait"
    /\ page < Len(grid)
    /\ pc' = "next_click"
    /\ UNCHANGED <<pureVars, attemptVars, loopVars, grid, page>>

NextWait_Timeout ==
    /\ pc = "next_wait"
    /\ pc' = "returned"
    /\ UNCHANGED <<pureVars, attemptVars, loopVars, grid, page>>

\* next_btn.click(), or the script click when click() raises
NextClick ==
    /\ pc = "next_click"
    /\ page' = page + 1
    /\ next_clicks' = next_clicks + 1
    /\ advances' = advances + 1
    /\ pc' = "next_load"
    /\ UNCHANGED <<pureVars, attemptVars, grid, events_cache, all_results,
                   booked_slots, day_results, calendar_ok, first_slot,
                   scrapes, attempts, fetches>>

NextLoad_Ok ==
    /\ pc = "next_load"
    /\ pc' = "scrape"
    /\ UNCHANGED <<pureVars, attemptVars, loopVars, grid, page>>

NextLoad_Fails ==
    /\ pc = "next_load"
    /\ pc' = "returned"
    /\ UNCHANGED <<pureVars, attemptVars, loopVars, grid, page>>

Next ==
    \/ InitCalendarCache_Ok \/ InitCalendarCache_Error
    \/ ScrapePage
    \/ TryBook_NoButton \/ TryBook_Enter
    \/ Book_ClaimHandle \/ Book_YyList \/ Book_Payment \/ Book_Submit
    \/ Book_StepFails
    \/ Book_Check_Marker \/ Book_Check_NoMarker \/ Book_Check_Fails
    \/ Book_Back_Ok \/ Book_Back_Fails
    \/ Book_Renav_Ok \/ Book_Renav_Fails
    \/ Book_Link_Ok
    \/ Book_Alert_Accept \/ Book_Alert_Absent
    \/ Book_Final_Ok \/ Book_Final_Fails
    \/ AfterBook_True \/ AfterBook_False
    \/ BookedNav_Ok \/ BookedNav_Raises
    \/ MaxCheck
    \/ NextWait_Found \/ NextWait_Timeout
    \/ NextClick
    \/ NextLoad_Ok \/ NextLoad_Fails

Spec == Init /\ [][Next]_vars

\* the runs of Spec and those in which a prompt goes unanswered
NextUnanswered == Next \/ Book_Alert_Unanswered

SpecUnanswered == Init /\ [][NextUnanswered]_vars

----------------------------------------------------------------------------
(* Claims on the booking attempt and the page loop                         *)

Last(q) == q[Len(q)]

\* C1: when the view after the submit step shows the "already reserved"
\* marker, the attempt never activates the confirmation link and never
\* returns True, whatever the driver does afterwards.
C1_PreemptedNeverConfirms ==
    marker => (~InSeq("confirm_link", actions) /\ ret # "True")

ContinuesToNextPage ==
    /\ pc = "book_return" => pc' = "max_check"
    /\ pc = "max_check" =>
          pc' = IF MaxReached THEN "returned" ELSE "next_wait"
    /\ pc = "next_wait" => pc' \in {"next_click", "returned"}
    /\ pc = "next_click" => (pc' = "next_load" /\ page' = page + 1)
    /\ pc = "next_load" => (pc' \in {"scrape", "returned"} /\ page' = page)

FailedAttempt == ret = "False" /\ failures \cap HardSteps # {}

PreemptedAttempt ==
    /\ marker /\ ret = "False" /\ actions # <<>>
    /\ Last(actions) = "navigate"

C9_AlwaysReturns == pc # "raised"

\* the slot passes the eligibility filter and, when a cache is in use, the
\* calendar check
Survives(s) ==
    /\ Keeps(s)
    /\ events_cache = <<>> \/ ~has_calendar_conflict(s, events_cache[1])

\* C13: for each page scrape at most one booking attempt is made, and it is
\* for the first slot, in the order of the scrape, that survived the
\* eligibility filter and the calendar filter; no second candidate of the
\* same scrape is attempted, whatever the outcome of the first.
C13_OneAttemptPerScrape ==
    /\ attempts <= 1
    /\ attempts = 1 =>
          \E i \in 1..Len(day_results) :
              /\ first_slot = day_results[i]
              /\ Survives(day_results[i])
              /\ \A j \in 1..(i - 1) : ~Survives(day_results[j])

C13_Witness ==
    /\ pc = "max_check" /\ attempts = 1 /\ ret = "False"
    /\ events_cache # <<>> /\ Len(calendar_ok) = 2
    /\ first_slot = calendar_ok[1]
    /\ Len(day_results) = 3 /\ first_slot = day_results[2]

\* the positions of try_book_first_candidate at which it uses the driver
DriverSteps ==
    {"book_slot_btn", "book_yy", "book_select", "book_submit", "book_check",
     "book_back", "book_renav", "book_link", "book_alert", "book_final"}

\* C14: for a candidate with an empty claim handle try_book_first_candidate
\* returns False at once: it reaches no step that uses the driver, has
\* performed no driver action, and the page still shows what was scraped.
C14_EmptyHandleFailsAtOnce ==
    /\ pc \in DriverSteps => first_slot.button_id # ""
    /\ (pc = "book_return" /\ first_slot.button_id = "") =>
          /\ ret = "False"
          /\ actions = <<>> /\ failures = {} /\ ~marker
          /\ grid[page] = day_results

C14_Witness ==
    /\ pc = "book_return" /\ first_slot.button_id = "" /\ attempts = 1
    /\ ret = "False" /\ actions = <<>> /\ grid[page] = day_results

\* init_calendar_cache has returned (None, None)
NoCache == pc # "init_calendar_cache" /\ events_cache = <<>>

\* C15: when the calendar fetch fails there is no cache, scrape_all_days
\* runs to completion, and on every page the booking candidates are exactly
\* the eligibility-filtered candidates.
C15_NoCacheRunCompletes ==
    NoCache =>
        /\ pc # "raised"
        /\ scrapes >= 1 =>
              calendar_ok = get_reservation_candidates(day_results)

\* C16: the busy-interval cache is fetched at most once per run, in
\* init_calendar_cache before the driver is started, and is never modified
\* or fetched again: every page's conflict filtering gets the same cache,
\* and filter_by_calendar with a cache, an empty one included, fetches
\* nothing.
C16_CacheFetchedOnce ==
    /\ [](/\ fetches <= 1
          /\ pc # "init_calendar_cache" =>
                fetches = (IF events_cache = <<>> THEN 0 ELSE 1))
    /\ [][pc # "init_calendar_cache" =>
             (events_cache' = events_cache /\ fetches' = fetches)]_vars
    /\ [][pc' = "init_calendar_cache" => pc = "init_calendar_cache"]_vars

C16_Witness ==
    /\ scrapes = 2 /\ page = 2 /\ calendar_ok # <<>>
    /\ events_cache = << <<>> >> /\ fetches = 1

\* C24: when a maximum number of page advances is configured, the next
\* control is activated at most that many times in a run, bookings that
\* restart the scan from the first results page included.
C24_AdvancesWithinMaximum ==
    MAX_NEXT_CLICKS # <<>> => advances <= MAX_NEXT_CLICKS[1]

C24_Witness ==
    /\ MAX_NEXT_CLICKS = <<1>> /\ advances = 1 /\ Len(booked_slots) = 1
    /\ page = 1 /\ scrapes = 3 /\ pc = "returned"

\* the driver actions after which an action of the attempt may come
Before(act) ==
    CASE act = "yy_list" -> {"claim"}
      [] act = "payment" -> {"yy_list"}
      [] act = "submit" -> {"payment"}
      [] act = "back" -> {"submit"}
      [] act = "navigate" -> {"back"}
      [] act = "confirm_link" -> {"submit", "back"}
      [] act = "alert_accept" -> {"confirm_link"}
      [] act = "final_link" -> {"confirm_link", "alert_accept"}
      [] OTHER -> {}

\* the attempt has ended: try_book_first_candidate has returned
Terminal == ret \in {"True", "False"}

\* C25: an attempt goes through its steps in order: every driver action
\* comes right after the completed action before it, starting with the claim
\* handle; True is returned only after the claim handle, the payment
\* selection, the submit and the confirmation link, in that order; and once
\* the attempt has ended it performs no further driver action.
C25_AttemptOrder ==
    /\ [](/\ \A k \in 1..Len(actions) :
                IF k = 1 THEN actions[k] = "claim"
                ELSE actions[k - 1] \in Before(actions[k])
          /\ ret = "True" =>
                /\ Len(actions) >= 5
                /\ SubSeq(actions, 1, 4)
                       = <<"claim", "yy_list", "payment", "submit">>
                /\ \E k \in 5..Len(actions) : actions[k] = "confirm_link"
          /\ Terminal => pc \notin DriverSteps)
    /\ [][Terminal => (actions' = actions \/ actions' = <<>>)]_vars

C25_Witness ==
    /\ pc = "book_return" /\ ret = "True"
    /\ actions = <<"claim", "yy_list", "payment", "submit", "confirm_link",
                   "alert_accept", "final_link">>

\* C26: after an attempt that returned True the loop records the slot,
\* re-navigates from the menu to the search results and scrapes again from
\* the first results page; the next control is not activated and the counter
\* of page advances is not raised on the way.
C26_BookedRestartsFromFirstPage ==
    [][/\ (pc = "book_return" /\ ret = "True") =>
            /\ booked_slots' = Append(booked_slots, first_slot)
            /\ pc' = "booked_nav"
            /\ advances' = advances /\ next_clicks' = next_clicks
       /\ pc = "booked_nav" =>
            /\ pc' = "scrape" /\ page' = 1
            /\ booked_slots' = booked_slots
            /\ advances' = advances /\ next_clicks' = next_clicks]_vars

\* the slot is the first of the current scrape that survives both filters
FirstSurvivor(s) ==
    \E i \in 1..Len(day_results) :
        /\ s = day_results[i]
        /\ Survives(day_results[i])
        /\ \A j \in 1..(i - 1) : ~Survives(day_results[j])

\* C27: at every point every slot in booked_slots occurs in all_results and
\* has a non-empty claim handle; booked_slots only grows, by the slot of an
\* attempt that returned True, and in the scrape in which it was attempted
\* that slot passed the eligibility filter and, when a cache is in use, the
\* calendar filter, and was the first candidate to do so.
C27_BookedSlotsSound ==
    /\ [](\A k \in 1..Len(booked_slots) :
              /\ InSeq(booked_slots[k], all_results)
              /\ booked_slots[k].button_id # "")
    /\ [][booked_slots' # booked_slots =>
             /\ booked_slots' = Append(booked_slots, first_slot)
             /\ ret = "True"
             /\ FirstSurvivor(first_slot)]_vars

C27_Witness ==
    /\ pc = "booked_nav" /\ Len(day_results) = 3
    /\ events_cache # <<>> /\ events_cache[1] # <<>>
    /\ has_calendar_conflict(day_results[2], events_cache[1])
    /\ booked_slots = <<day_results[3]>>

\* C28: within one run no slot is booked twice: booked_slots never holds
\* the same slot (date, time range, facility) at two places.
C28_NoSlotBookedTwice ==
    \A i, j \in 1..Len(booked_slots) :
        (/\ booked_slots[i].date_obj = booked_slots[j].date_obj
         /\ booked_slots[i].start_time = booked_slots[j].start_time
         /\ booked_slots[i].end_time = booked_slots[j].end_time
         /\ booked_slots[i].court = booked_slots[j].court) => i = j

=============================================================================
